---- MODULE Spec2Model ----
(***************************************************************************)
(* A model of SceneManager (src/SceneManager.cpp): the texture registry,   *)
(* the material list, the per-draw shader-state setters and the fixed      *)
(* scene (PrepareScene / RenderScene / DestroyGLTextures / destructor).    *)
(*                                                                         *)
(* Conventions                                                             *)
(*  - every float of the source is kept as an integer number of            *)
(*    hundredths (0.38f is 38, 15.0f is 1500); angles are hundredths of a  *)
(*    degree;                                                              *)
(*  - a uniform value is a flat tuple of such integers (a bool or an int   *)
(*    is a 1-tuple), so that any two values can be compared;               *)
(*  - the model matrix translation * rotationX * rotationY * rotationZ *   *)
(*    scale is kept in factored form, the factors in product order:        *)
(*    <<tx,ty,tz, rx, ry, rz, sx,sy,sz>>;                                  *)
(*  - the shader program, the GL texture objects and the mesh library are  *)
(*    external; they are modelled by the state the calls of this file      *)
(*    leave in them.                                                       *)
(***************************************************************************)
EXTENDS Integers, Sequences, FiniteSets, TLC

VARIABLES
    m_pShaderManager,   \* the shader manager pointer: ShaderPtr or NullPtr
    m_basicMeshes,      \* the set of meshes loaded in ShapeMeshes, or NullPtr
    m_textureIDs,       \* array [0..MaxTextureSlots-1] of [ID, tag]
    m_loadedTextures,   \* number of used entries of m_textureIDs
    m_objectMaterials,  \* std::vector<OBJECT_MATERIAL>
    uniforms,           \* the uniforms of the active shader program
    gl,                 \* GL texture objects and texture units
    phase,              \* lifetime of the object
    written,            \* uniform writes and draw calls of the last operation
    call,               \* the last operation called, its arguments and result
    pre,                \* shader and registry state before the last operation
    regLog,             \* the successful CreateGLTexture calls, in order
    prevFrame,          \* what the RenderScene before the last one wrote
    prevStart,          \* the uniforms that RenderScene started from
    frames              \* number of RenderScene calls so far

vars == <<m_pShaderManager, m_basicMeshes, m_textureIDs, m_loadedTextures,
          m_objectMaterials, uniforms, gl, phase, written, call, pre, regLog,
          prevFrame, prevStart, frames>>

-----------------------------------------------------------------------------
(* Bounds of the model *)

\* CreateGLTexture is called while fewer than this many GL names were generated
MaxGenerated == 3
\* materials are appended while the list is shorter than this
MaxMaterials == 2
\* RenderScene is called at most this many times
MaxFrames == 3

(* Program constants *)

\* "There are up to 16 slots" : the size of m_textureIDs
MaxTextureSlots == 16

NullPtr == "NULL"
ShaderPtr == "ShaderManager"

\* the uniform names of the anonymous namespace
g_ModelName == "model"
g_ColorValueName == "objectColor"
g_TextureValueName == "objectTexture"
g_UseTextureName == "bUseTexture"
g_UseLightingName == "bUseLighting"

\* implicit bool -> int conversion of setIntValue(name, true/false)
BoolToInt(b) == IF b THEN 1 ELSE 0

-----------------------------------------------------------------------------
(* The shader interface: a typed setter stores the value under the name and
   is recorded as a write.  sh = [u |-> uniforms, w |-> writes so far]. *)

Uniform(name, value) == [kind |-> "uniform", name |-> name, value |-> value]
Draw(shape, flags) == [kind |-> "draw", name |-> shape, value |-> flags]

setUniform(sh, name, value) ==
    [u |-> [sh.u EXCEPT ![name] = value],
     w |-> Append(sh.w, Uniform(name, value))]

drawMesh(sh, shape, flags) ==
    [sh EXCEPT !.w = Append(sh.w, Draw(shape, flags))]

Zeros(n) == [i \in 1 .. n |-> 0]

MaterialUniforms ==
    {"material.ambientColor", "material.ambientStrength",
     "material.diffuseColor", "material.specularColor", "material.shininess"}

LightUniforms ==
    {"lightSources[0].position", "lightSources[0].direction",
     "lightSources[0].ambientColor", "lightSources[0].diffuseColor",
     "lightSources[0].specularColor", "lightSources[0].focalStrength",
     "lightSources[0].specularIntensity", "lightSources[1].direction",
     "lightSources[1].ambientColor", "lightSources[1].diffuseColor",
     "lightSources[1].specularColor"}

UniformNames ==
    {g_ModelName, g_ColorValueName, g_TextureValueName, g_UseTextureName,
     g_UseLightingName, "UVscale"} \cup MaterialUniforms \cup LightUniforms

\* the uniforms of a freshly linked program are zero; <<>> is the zero mat4,
\* which no SetTransformations call produces
InitUniforms ==
    [n \in UniformNames |->
        CASE n = g_ModelName -> <<>>
          [] n = g_ColorValueName -> Zeros(4)
          [] n = "UVscale" -> Zeros(2)
          [] n \in {g_TextureValueName, g_UseTextureName, g_UseLightingName,
                    "material.ambientStrength", "material.shininess",
                    "lightSources[0].focalStrength",
                    "lightSources[0].specularIntensity"} -> Zeros(1)
          [] OTHER -> Zeros(3)]

-----------------------------------------------------------------------------
(* Texture registry *)

\* an entry of m_textureIDs that was never assigned
UnsetEntry == [ID |-> 0, tag |-> ""]

\* stbi_load: 0 is a failed decode, 1..4 the channel count of a decoded image
DecodeOutcomes == 0 .. 4

InitGL ==
    [next |-> 1,                 \* the next name glGenTextures returns
     names |-> {},               \* texture names generated and not deleted
     deleted |-> <<>>,           \* names passed to glDeleteTextures, in order
     active |-> 0,               \* glActiveTexture unit
     units |-> [i \in 0 .. MaxTextureSlots - 1 |-> 0]]  \* GL_TEXTURE_2D binding

glGenTextures(g) == [g EXCEPT !.next = @ + 1, !.names = @ \cup {g.next}]
glBindTexture(g, name) == [g EXCEPT !.units[g.active] = name]
glActiveTexture(g, unit) == [g EXCEPT !.active = unit]

\* CreateGLTexture registering the texture before it looks at the channels
CreateGLTexture_RegistersBadChannels(reg, outcome, tag) ==
    IF outcome # 0
    THEN LET textureID == reg.gl.next
             g1 == glBindTexture(glGenTextures(reg.gl), textureID)
         IN  [ids |-> [reg.ids EXCEPT ![reg.loaded] =
                          [ID |-> textureID, tag |-> tag]],
              loaded |-> reg.loaded + 1,
              gl |-> IF outcome = 3 \/ outcome = 4
                     THEN glBindTexture(g1, 0) ELSE g1,
              ret |-> (outcome = 3 \/ outcome = 4)]
    ELSE [ids |-> reg.ids, loaded |-> reg.loaded, gl |-> reg.gl,
          ret |-> FALSE]

\* reg = [ids, loaded, gl]; the result adds ret
CreateGLTexture(reg, outcome, tag) ==
    IF outcome # 0
    THEN LET textureID == reg.gl.next
             g1 == glBindTexture(glGenTextures(reg.gl), textureID)
         IN  IF outcome = 3 \/ outcome = 4
             THEN [ids |-> [reg.ids EXCEPT ![reg.loaded] =
                                [ID |-> textureID, tag |-> tag]],
                   loaded |-> reg.loaded + 1,
                   gl |-> glBindTexture(g1, 0),
                   ret |-> TRUE]
             ELSE [ids |-> reg.ids, loaded |-> reg.loaded, gl |-> g1,
                   ret |-> FALSE]
    ELSE [ids |-> reg.ids, loaded |-> reg.loaded, gl |-> reg.gl,
          ret |-> FALSE]

\* FindTextureSlot returning the texture ID, as FindTextureID does
RECURSIVE FindTextureSlotFrom_ReturnsID(_, _, _, _)
FindTextureSlotFrom_ReturnsID(ids, loaded, tag, index) ==
    IF index < loaded
    THEN IF ids[index].tag = tag
         THEN ids[index].ID
         ELSE FindTextureSlotFrom_ReturnsID(ids, loaded, tag, index + 1)
    ELSE -1

RECURSIVE FindTextureSlotFrom(_, _, _, _)
FindTextureSlotFrom(ids, loaded, tag, index) ==
    IF index < loaded
    THEN IF ids[index].tag = tag
         THEN index
         ELSE FindTextureSlotFrom(ids, loaded, tag, index + 1)
    ELSE -1

FindTextureSlot(tag) ==
    FindTextureSlotFrom(m_textureIDs, m_loadedTextures, tag, 0)

-----------------------------------------------------------------------------
(* Material list *)

\* the four materials DefineObjectMaterials appends
counterMaterial ==
    [tag |-> "counter", ambientColor |-> <<50, 50, 50>>,
     ambientStrength |-> 30, diffuseColor |-> <<20, 20, 20>>,
     specularColor |-> <<20, 20, 20>>, shininess |-> 3200]

mugOuterMaterial ==
    [tag |-> "mugOuter", ambientColor |-> <<100, 100, 100>>,
     ambientStrength |-> 50, diffuseColor |-> <<30, 30, 30>>,
     specularColor |-> <<10, 10, 10>>, shininess |-> 800]

handleMaterial ==
    [tag |-> "mugHandle", ambientColor |-> <<100, 100, 100>>,
     ambientStrength |-> 50, diffuseColor |-> <<30, 30, 30>>,
     specularColor |-> <<10, 10, 10>>, shininess |-> 800]

woodMaterial ==
    [tag |-> "wood", ambientColor |-> <<76, 60, 42>>,
     ambientStrength |-> 50, diffuseColor |-> <<65, 45, 30>>,
     specularColor |-> <<20, 20, 20>>, shininess |-> 1600]

\* "OBJECT_MATERIAL material;" is not initialised: the tag is the empty
\* string, the glm::vec3 and float members hold whatever the stack held
\* (zeros, or the values an earlier call left there)
UninitMaterials ==
    {[tag |-> "", ambientColor |-> <<0, 0, 0>>, ambientStrength |-> 0,
      diffuseColor |-> <<0, 0, 0>>, specularColor |-> <<0, 0, 0>>,
      shininess |-> 0],
     [mugOuterMaterial EXCEPT !.tag = ""]}

\* FindMaterial not stopping at the first match: the last match wins
RECURSIVE FindMaterialFrom_LastMatch(_, _, _, _)
FindMaterialFrom_LastMatch(list, tag, material, index) ==
    IF index < Len(list)
    THEN FindMaterialFrom_LastMatch(
             list, tag,
             IF list[index + 1].tag = tag
             THEN [material EXCEPT
                      !.ambientColor = list[index + 1].ambientColor,
                      !.ambientStrength = list[index + 1].ambientStrength,
                      !.diffuseColor = list[index + 1].diffuseColor,
                      !.specularColor = list[index + 1].specularColor,
                      !.shininess = list[index + 1].shininess]
             ELSE material,
             index + 1)
    ELSE material

\* the while loop of FindMaterial; the tag of the out-parameter is not copied
RECURSIVE FindMaterialFrom(_, _, _, _)
FindMaterialFrom(list, tag, material, index) ==
    IF index < Len(list)
    THEN IF list[index + 1].tag = tag
         THEN [material EXCEPT
                  !.ambientColor = list[index + 1].ambientColor,
                  !.ambientStrength = list[index + 1].ambientStrength,
                  !.diffuseColor = list[index + 1].diffuseColor,
                  !.specularColor = list[index + 1].specularColor,
                  !.shininess = list[index + 1].shininess]
         ELSE FindMaterialFrom(list, tag, material, index + 1)
    ELSE material

\* bool FindMaterial(tag, OBJECT_MATERIAL& material): [ret, material]
FindMaterial(tag, material) ==
    IF Len(m_objectMaterials) = 0
    THEN [ret |-> FALSE, material |-> material]
    ELSE [ret |-> TRUE,
          material |-> FindMaterialFrom(m_objectMaterials, tag, material, 0)]

-----------------------------------------------------------------------------
(* Transform composer and shader-state setters, on sh = [u, w] *)

ModelView(scaleXYZ, XrotationDegrees, YrotationDegrees, ZrotationDegrees, positionXYZ) ==
    positionXYZ \o <<XrotationDegrees, YrotationDegrees, ZrotationDegrees>>
        \o scaleXYZ

SetTransformations(sh, scaleXYZ, XrotationDegrees, YrotationDegrees, ZrotationDegrees, positionXYZ) ==
    IF NullPtr # m_pShaderManager
    THEN setUniform(sh, g_ModelName,
                    ModelView(scaleXYZ, XrotationDegrees, YrotationDegrees,
                              ZrotationDegrees, positionXYZ))
    ELSE sh

\* SetShaderColor setting the colour and leaving bUseTexture as it is
SetShaderColor_KeepsUseTexture(sh, currentColor) ==
    IF NullPtr # m_pShaderManager
    THEN setUniform(sh, g_ColorValueName, currentColor)
    ELSE sh

SetShaderColor(sh, currentColor) ==
    IF NullPtr # m_pShaderManager
    THEN setUniform(setUniform(sh, g_UseTextureName, <<BoolToInt(FALSE)>>),
                    g_ColorValueName, currentColor)
    ELSE sh

\* SetShaderTexture leaving the sampler alone when the tag is not found
SetShaderTexture_SkipsMiss(sh, textureTag) ==
    IF NullPtr # m_pShaderManager
    THEN LET s1 == setUniform(sh, g_UseTextureName, <<BoolToInt(TRUE)>>)
         IN  IF FindTextureSlot(textureTag) = -1
             THEN s1
             ELSE setUniform(s1, g_TextureValueName,
                             <<FindTextureSlot(textureTag)>>)
    ELSE sh

SetShaderTexture(sh, textureTag) ==
    IF NullPtr # m_pShaderManager
    THEN setUniform(setUniform(sh, g_UseTextureName, <<BoolToInt(TRUE)>>),
                    g_TextureValueName, <<FindTextureSlot(textureTag)>>)
    ELSE sh

SetTextureUVScale(sh, uv) ==
    IF NullPtr # m_pShaderManager
    THEN setUniform(sh, "UVscale", uv)
    ELSE sh

PushMaterial(sh, material) ==
    LET s1 == setUniform(sh, "material.ambientColor", material.ambientColor)
        s2 == setUniform(s1, "material.ambientStrength",
                         <<material.ambientStrength>>)
        s3 == setUniform(s2, "material.diffuseColor", material.diffuseColor)
        s4 == setUniform(s3, "material.specularColor", material.specularColor)
    IN  setUniform(s4, "material.shininess", <<material.shininess>>)

\* uninit is what the local OBJECT_MATERIAL holds before FindMaterial fills it
SetShaderMaterial(sh, materialTag, uninit) ==
    IF Len(m_objectMaterials) > 0
    THEN LET found == FindMaterial(materialTag, uninit)
         IN  IF found.ret = TRUE
             THEN PushMaterial(sh, found.material)
             ELSE sh
    ELSE sh

-----------------------------------------------------------------------------
(* State after the constructor, and the record kept of each call *)

NoMaterial ==
    [tag |-> "", ambientColor |-> <<0, 0, 0>>, ambientStrength |-> 0,
     diffuseColor |-> <<0, 0, 0>>, specularColor |-> <<0, 0, 0>>,
     shininess |-> 0]

\* op(tag, args) returned ret; out is the OBJECT_MATERIAL& after the call
Call(op, tag, args, ret, out) ==
    [op |-> op, tag |-> tag, args |-> args, ret |-> ret, out |-> out]

Snapshot ==
    [uniforms |-> uniforms, m_textureIDs |-> m_textureIDs,
     m_loadedTextures |-> m_loadedTextures,
     m_objectMaterials |-> m_objectMaterials, gl |-> gl]

\* SceneManager(pShaderManager).  The constructor assigns the two pointers
\* only; the registries start empty (m_loadedTextures = 0), the initial
\* values being those of the class declaration in SceneManager.h.  The
\* shader manager is non-null from here to the destructor: SetupSceneLights
\* and SetShaderMaterial use it unchecked.  CreateGLTexture is called only
\* while m_loadedTextures < MaxTextureSlots (it does not check the capacity).
Init ==
    /\ m_pShaderManager = ShaderPtr
    /\ m_basicMeshes = {}
    /\ m_textureIDs = [i \in 0 .. MaxTextureSlots - 1 |-> UnsetEntry]
    /\ m_loadedTextures = 0
    /\ m_objectMaterials = <<>>
    /\ uniforms = InitUniforms
    /\ gl = InitGL
    /\ phase = "constructed"
    /\ written = <<>>
    /\ call = Call("SceneManager", "", <<>>, 0, NoMaterial)
    /\ pre = [uniforms |-> InitUniforms,
              m_textureIDs |-> [i \in 0 .. MaxTextureSlots - 1 |-> UnsetEntry],
              m_loadedTextures |-> 0, m_objectMaterials |-> <<>>,
              gl |-> InitGL]
    /\ regLog = <<>>
    /\ prevFrame = <<>>
    /\ prevStart = InitUniforms
    /\ frames = 0

sceneVars ==
    <<m_pShaderManager, m_basicMeshes, phase, prevFrame, prevStart, frames>>
textureVars == <<m_textureIDs, m_loadedTextures, gl, regLog>>

-----------------------------------------------------------------------------
(* The operations, called one at a time *)

\* CreateGLTexture(filename, tag), the file decoding with the given outcome
CallCreateGLTexture(outcome, tag) ==
    /\ phase = "constructed"
    /\ gl.next <= MaxGenerated
    /\ m_loadedTextures < MaxTextureSlots
    /\ LET r == CreateGLTexture([ids |-> m_textureIDs,
                                 loaded |-> m_loadedTextures, gl |-> gl],
                                outcome, tag)
       IN  /\ m_textureIDs' = r.ids
           /\ m_loadedTextures' = r.loaded
           /\ gl' = r.gl
           /\ call' = Call("CreateGLTexture", tag, <<outcome>>,
                           BoolToInt(r.ret), NoMaterial)
           /\ regLog' = IF r.ret
                        THEN Append(regLog,
                                    [tag |-> tag,
                                     ID |-> r.ids[m_loadedTextures].ID])
                        ELSE regLog
    /\ pre' = Snapshot
    /\ written' = <<>>
    /\ UNCHANGED <<sceneVars, m_objectMaterials, uniforms>>

CallFindTextureSlot(tag) ==
    /\ phase = "constructed"
    /\ call' = Call("FindTextureSlot", tag, <<>>, FindTextureSlot(tag),
                    NoMaterial)
    /\ pre' = Snapshot
    /\ written' = <<>>
    /\ UNCHANGED <<sceneVars, textureVars, m_objectMaterials, uniforms>>

\* m_objectMaterials.push_back(material)
DefineMaterial(material) ==
    /\ phase = "constructed"
    /\ Len(m_objectMaterials) < MaxMaterials
    /\ m_objectMaterials' = Append(m_objectMaterials, material)
    /\ call' = Call("push_back", material.tag, <<>>, 0, material)
    /\ pre' = Snapshot
    /\ written' = <<>>
    /\ UNCHANGED <<sceneVars, textureVars, uniforms>>

CallFindMaterial(tag, uninit) ==
    /\ phase = "constructed"
    /\ LET r == FindMaterial(tag, uninit)
       IN  call' = Call("FindMaterial", tag, <<>>, BoolToInt(r.ret),
                        r.material)
    /\ pre' = Snapshot
    /\ written' = <<>>
    /\ UNCHANGED <<sceneVars, textureVars, m_objectMaterials, uniforms>>

\* a setter applied to the shader: the uniforms after it and what it wrote
Apply(sh, op, tag, args) ==
    /\ phase = "constructed"
    /\ uniforms' = sh.u
    /\ written' = sh.w
    /\ call' = Call(op, tag, args, 0, NoMaterial)
    /\ pre' = Snapshot
    /\ UNCHANGED <<sceneVars, textureVars, m_objectMaterials>>

Shader == [u |-> uniforms, w |-> <<>>]

CallSetShaderColor(color) ==
    Apply(SetShaderColor(Shader, color), "SetShaderColor", "", color)

CallSetShaderTexture(tag) ==
    Apply(SetShaderTexture(Shader, tag), "SetShaderTexture", tag, <<>>)

CallSetTextureUVScale(uv) ==
    Apply(SetTextureUVScale(Shader, uv), "SetTextureUVScale", "", uv)

CallSetShaderMaterial(tag, uninit) ==
    Apply(SetShaderMaterial(Shader, tag, uninit), "SetShaderMaterial", tag,
          <<>>)

-----------------------------------------------------------------------------
(* Specifications of the registries and of the setters, under any order of
   calls.  The arguments are drawn from the values the scene uses. *)

TextureTags == {"mug", "counter", "cuttingBoard"}
MaterialTags == {"counter", "wood"}
\* "mugOuter" is looked up and never defined here
LookupMaterialTags == MaterialTags \cup {"mugOuter"}
\* the same tag may be defined twice, with different fields
MaterialEntries ==
    {[m EXCEPT !.tag = t] : m \in {counterMaterial, woodMaterial},
                            t \in MaterialTags}
Colors == {<<100, 100, 100, 100>>, <<50, 0, 50, 100>>}
UVScales == {<<500, 100>>, <<200, 100>>}

NextTextures ==
    \/ \E o \in DecodeOutcomes, t \in TextureTags : CallCreateGLTexture(o, t)
    \/ \E t \in TextureTags : CallFindTextureSlot(t)
    \/ \E t \in TextureTags : CallSetShaderTexture(t)
    \/ CallSetShaderColor(<<50, 0, 50, 100>>)

SpecTextures == Init /\ [][NextTextures]_vars

NextMaterials ==
    \/ \E m \in MaterialEntries : DefineMaterial(m)
    \/ \E t \in LookupMaterialTags, g \in UninitMaterials :
          CallFindMaterial(t, g)
    \/ \E t \in LookupMaterialTags, g \in UninitMaterials :
          CallSetShaderMaterial(t, g)

SpecMaterials == Init /\ [][NextMaterials]_vars

NextShader ==
    \/ CallCreateGLTexture(3, "mug")
    \/ DefineMaterial(counterMaterial)
    \/ \E c \in Colors : CallSetShaderColor(c)
    \/ \E t \in {"mug", "counter"} : CallSetShaderTexture(t)
    \/ \E uv \in UVScales : CallSetTextureUVScale(uv)
    \/ \E t \in MaterialTags, g \in UninitMaterials :
          CallSetShaderMaterial(t, g)

SpecShader == Init /\ [][NextShader]_vars

-----------------------------------------------------------------------------
(* The scene: PrepareScene, RenderScene, DestroyGLTextures, ~SceneManager *)

\* the for loop of BindGLTextures, from index i
RECURSIVE BindGLTexturesFrom(_, _, _, _)
BindGLTexturesFrom(g, ids, loaded, i) ==
    IF i < loaded
    THEN BindGLTexturesFrom(glBindTexture(glActiveTexture(g, i), ids[i].ID),
                            ids, loaded, i + 1)
    ELSE g

BindGLTextures(reg) ==
    [reg EXCEPT !.gl = BindGLTexturesFrom(reg.gl, reg.ids, reg.loaded, 0)]

\* the for loop of DestroyGLTextures, from index i: glGenTextures stores a
\* newly generated name in m_textureIDs[i].ID
RECURSIVE DestroyGLTexturesFrom(_, _)
DestroyGLTexturesFrom(reg, i) ==
    IF i < reg.loaded
    THEN DestroyGLTexturesFrom(
             [reg EXCEPT !.ids[i].ID = reg.gl.next,
                         !.gl = glGenTextures(reg.gl)],
             i + 1)
    ELSE reg

DestroyGLTextures(reg) == DestroyGLTexturesFrom(reg, 0)

\* LoadSceneTextures binding the texture units before it loads the images
LoadSceneTextures_BindsFirst(reg, outcomes) ==
    LET r0 == BindGLTextures(reg)
        r1 == CreateGLTexture(r0, outcomes[1], "mug")
        r2 == CreateGLTexture(r1, outcomes[2], "mug2")
        r3 == CreateGLTexture(r2, outcomes[3], "counter")
        r4 == CreateGLTexture(r3, outcomes[4], "cuttingBoard")
    IN  [ids |-> r4.ids, loaded |-> r4.loaded, gl |-> r4.gl]

\* outcomes[k] is how the k-th image file decodes
LoadSceneTextures(reg, outcomes) ==
    LET r1 == CreateGLTexture(reg, outcomes[1], "mug")
        r2 == CreateGLTexture(r1, outcomes[2], "mug2")
        r3 == CreateGLTexture(r2, outcomes[3], "counter")
        r4 == CreateGLTexture(r3, outcomes[4], "cuttingBoard")
    IN  BindGLTextures([ids |-> r4.ids, loaded |-> r4.loaded, gl |-> r4.gl])

DefineObjectMaterials(list) ==
    list \o <<counterMaterial, mugOuterMaterial, handleMaterial, woodMaterial>>

SetupSceneLights(sh) ==
    LET s0 == setUniform(sh, "bUseLighting", <<BoolToInt(TRUE)>>)
        s1 == setUniform(s0, "lightSources[0].position", <<750, 2000, 500>>)
        s2 == setUniform(s1, "lightSources[0].direction", <<0, -100, -50>>)
        s3 == setUniform(s2, "lightSources[0].ambientColor", <<5, 5, 30>>)
        s4 == setUniform(s3, "lightSources[0].diffuseColor", <<10, 10, 100>>)
        s5 == setUniform(s4, "lightSources[0].specularColor", <<20, 20, 100>>)
        s6 == setUniform(s5, "lightSources[0].focalStrength", <<35000>>)
        s7 == setUniform(s6, "lightSources[0].specularIntensity", <<90>>)
        s8 == setUniform(s7, "lightSources[1].direction", <<-30, -100, -30>>)
        s9 == setUniform(s8, "lightSources[1].ambientColor", <<10, 10, 10>>)
        s10 == setUniform(s9, "lightSources[1].diffuseColor", <<70, 70, 70>>)
    IN  setUniform(s10, "lightSources[1].specularColor", <<50, 50, 50>>)

LoadedMeshes == {"plane", "cylinder", "torus", "box", "sphere"}

\* statement sequencing: the statements F run on the shader state that the
\* statements before them left (e is evaluated first, then F on its value)
Then(e, F(_)) == CHOOSE r \in {F(x) : x \in {e}} : TRUE

DrawCountertop(sh, uninit) ==
    LET s1 == SetTransformations(sh, <<1500, 100, 1200>>, 0, 0, 0,
                                 <<0, 0, 200>>)
        s2 == SetShaderColor(s1, <<50, 50, 50, 100>>)
        s3 == SetShaderTexture(s2, "counter")
        s4 == SetShaderMaterial(s3, "counter", uninit)
    IN  drawMesh(s4, "plane", <<>>)

\* DrawMug, part by part: the outer cylinder
DrawMugBody(sh, uninit) ==
    LET s1 == SetTransformations(sh, <<100, 200, 100>>, 0, 0, 0,
                                 <<550, 0, 300>>)
        s2 == SetShaderColor(s1, <<100, 100, 100, 100>>)
        s3 == SetTextureUVScale(s2, <<500, 100>>)
        s4 == SetShaderTexture(s3, "mug")
        s5 == SetShaderMaterial(s4, "mugOuter", uninit)
    IN  drawMesh(s5, "cylinder", <<0, 0, 1>>)

\* the torus handle
DrawMugHandle(sh) ==
    LET s1 == SetTransformations(sh, <<70, 70, 20>>, 0, -1500, 0,
                                 <<650, 80, 300>>)
        s2 == SetShaderColor(s1, <<100, 100, 100, 100>>)
        s3 == SetTextureUVScale(s2, <<200, 100>>)
        s4 == SetShaderTexture(s3, "mug")
    IN  drawMesh(s4, "torus", <<>>)

\* the outer rim drawn without a SetShaderColor call of its own
DrawMugOuterRim_NoColor(sh) ==
    LET s1 == SetTransformations(sh, <<101, 5, 101>>, 0, 0, 0,
                                 <<550, 200, 300>>)
    IN  drawMesh(s1, "cylinder", <<>>)

\* the black outer rim
DrawMugOuterRim(sh) ==
    LET s1 == SetTransformations(sh, <<101, 5, 101>>, 0, 0, 0,
                                 <<550, 200, 300>>)
        s2 == SetShaderColor(s1, <<0, 0, 0, 100>>)
    IN  drawMesh(s2, "cylinder", <<>>)

\* the inner rim
DrawMugInnerRim(sh) ==
    LET s1 == SetTransformations(sh, <<99, 5, 99>>, 0, 0, 0,
                                 <<550, 201, 300>>)
        s2 == SetShaderColor(s1, <<100, 100, 100, 100>>)
    IN  drawMesh(s2, "cylinder", <<>>)

\* the tea tag box
DrawMugTeaTag(sh) ==
    LET s1 == SetTransformations(sh, <<40, 60, 10>>, 0, 0, 0,
                                 <<550, 33, 400>>)
        s2 == SetShaderColor(s1, <<0, 0, 0, 100>>)
    IN  drawMesh(s2, "box", <<>>)

\* the string of the tea tag
DrawMugTeaString(sh) ==
    LET s1 == SetTransformations(sh, <<2, 175, 2>>, 0, 0, 0,
                                 <<550, 33, 400>>)
        s2 == SetShaderColor(s1, <<96, 87, 70, 100>>)
    IN  drawMesh(s2, "cylinder", <<>>)

DrawMug(sh, uninit) ==
    LET s1 == Then(sh, LAMBDA s : DrawMugBody(s, uninit))
        s2 == Then(s1, DrawMugHandle)
        s3 == Then(s2, DrawMugOuterRim)
        s4 == Then(s3, DrawMugInnerRim)
        s5 == Then(s4, DrawMugTeaTag)
    IN  Then(s5, DrawMugTeaString)

DrawCuttingBoard(sh, uninit) ==
    LET s1 == SetTransformations(sh, <<600, 20, 300>>, 0, 0, 0,
                                 <<-100, 10, 750>>)
        s2 == SetShaderColor(s1, <<76, 60, 42, 100>>)
        s3 == SetShaderTexture(s2, "cuttingBoard")
        s4 == SetShaderMaterial(s3, "wood", uninit)
    IN  drawMesh(s4, "box", <<>>)

\* the arrays of DrawGrapes, indexed from 0
grapePositions ==
    [i \in 0 .. 5 |->
        CASE i = 0 -> <<-300, 40, 750>>
          [] i = 1 -> <<-280, 38, 690>>
          [] i = 2 -> <<-260, 40, 730>>
          [] i = 3 -> <<-200, 40, 640>>
          [] i = 4 -> <<-260, 40, 780>>
          [] i = 5 -> <<-260, 38, 640>>]

grapeSizes ==
    [i \in 0 .. 5 |->
        CASE i = 0 -> 20 [] i = 1 -> 18 [] i = 2 -> 22
          [] i = 3 -> 19 [] i = 4 -> 21 [] i = 5 -> 17]

\* the loop body drawing the sphere before it pushes the transform
DrawGrape_DrawsBeforeTransform(sh, i) ==
    LET scaleXYZ == <<grapeSizes[i], grapeSizes[i], grapeSizes[i]>>
        s1 == drawMesh(sh, "sphere", <<>>)
        s2 == SetTransformations(s1, scaleXYZ, 0, 0, 0, grapePositions[i])
    IN  SetShaderColor(s2, <<50, 0, 50, 100>>)

\* the body of the loop of DrawGrapes, for index i
DrawGrape(sh, i) ==
    LET scaleXYZ == <<grapeSizes[i], grapeSizes[i], grapeSizes[i]>>
        s1 == SetTransformations(sh, scaleXYZ, 0, 0, 0, grapePositions[i])
        s2 == SetShaderColor(s1, <<50, 0, 50, 100>>)
    IN  drawMesh(s2, "sphere", <<>>)

RECURSIVE DrawGrapesFrom(_, _)
DrawGrapesFrom(sh, i) ==
    IF i < 6
    THEN Then(Then(sh, LAMBDA s : DrawGrape(s, i)),
              LAMBDA s : DrawGrapesFrom(s, i + 1))
    ELSE sh

\* the loop index kept across calls ("static int i"): later frames draw none
DrawGrapes_StaticIndex(sh) ==
    DrawGrapesFrom(sh, IF frames = 0 THEN 0 ELSE 6)

DrawGrapes(sh) == DrawGrapesFrom(sh, 0)

\* the arrays of DrawSausages, indexed from 0
sausagePositions ==
    [i \in 0 .. 1 |-> IF i = 0 THEN <<0, 21, 800>> ELSE <<70, 21, 700>>]
sausageScales == [i \in 0 .. 1 |-> <<10, 10, 180>>]
sausageRotations == [i \in 0 .. 1 |-> IF i = 0 THEN 3500 ELSE 4500]

RECURSIVE DrawSausagesFrom(_, _)
DrawSausagesFrom(sh, i) ==
    IF i < 2
    THEN LET s1 == SetTransformations(sh, sausageScales[i], 0,
                                      sausageRotations[i], 0,
                                      sausagePositions[i])
             s2 == SetShaderColor(s1, <<65, 32, 17, 100>>)
         IN  Then(drawMesh(s2, "cylinder", <<0, 1, 1>>),
                  LAMBDA s : DrawSausagesFrom(s, i + 1))
    ELSE sh

DrawSausages(sh) == DrawSausagesFrom(sh, 0)

DrawTeaBox(sh) ==
    LET s1 == SetTransformations(sh, <<400, 200, 200>>, 0, -2500, 0,
                                 <<220, 100, 60>>)
        s2 == SetShaderColor(s1, <<80, 70, 50, 100>>)
    IN  drawMesh(s2, "box", <<>>)

RenderScene(sh, uninit) ==
    LET s1 == Then(sh, LAMBDA s : DrawCountertop(s, uninit))
        s2 == Then(s1, LAMBDA s : DrawMug(s, uninit))
        s3 == Then(s2, LAMBDA s : DrawCuttingBoard(s, uninit))
        s4 == Then(s3, DrawGrapes)
        s5 == Then(s4, DrawSausages)
    IN  Then(s5, DrawTeaBox)

\* PrepareScene(), the four image files decoding as outcomes says
CallPrepareScene(outcomes) ==
    /\ phase = "constructed"
    /\ m_objectMaterials' = DefineObjectMaterials(m_objectMaterials)
    /\ LET r == LoadSceneTextures([ids |-> m_textureIDs,
                                   loaded |-> m_loadedTextures, gl |-> gl],
                                  outcomes)
       IN  /\ m_textureIDs' = r.ids
           /\ m_loadedTextures' = r.loaded
           /\ gl' = r.gl
           /\ regLog' = [i \in 1 .. r.loaded |-> r.ids[i - 1]]
    /\ LET sh == SetupSceneLights(Shader)
       IN  uniforms' = sh.u /\ written' = sh.w
    /\ m_basicMeshes' = LoadedMeshes
    /\ phase' = "prepared"
    /\ call' = Call("PrepareScene", "", outcomes, 0, NoMaterial)
    /\ pre' = Snapshot
    /\ UNCHANGED <<m_pShaderManager, prevFrame, prevStart, frames>>

\* RenderScene(), one frame
CallRenderScene(uninit) ==
    /\ phase = "prepared"
    /\ frames < MaxFrames
    /\ LET sh == RenderScene(Shader, uninit)
       IN  uniforms' = sh.u /\ written' = sh.w
    /\ prevFrame' = IF frames > 0 THEN written ELSE <<>>
    /\ prevStart' = IF frames > 0 THEN pre.uniforms ELSE InitUniforms
    /\ frames' = frames + 1
    /\ call' = Call("RenderScene", "", <<>>, 0, NoMaterial)
    /\ pre' = Snapshot
    /\ UNCHANGED <<m_pShaderManager, m_basicMeshes, phase, textureVars,
                   m_objectMaterials>>

CallDestroyGLTextures ==
    /\ phase = "prepared"
    /\ LET r == DestroyGLTextures([ids |-> m_textureIDs,
                                   loaded |-> m_loadedTextures, gl |-> gl])
       IN  /\ m_textureIDs' = r.ids
           /\ m_loadedTextures' = r.loaded
           /\ gl' = r.gl
    /\ phase' = "destroyed"
    /\ call' = Call("DestroyGLTextures", "", <<>>, 0, NoMaterial)
    /\ pre' = Snapshot
    /\ written' = <<>>
    /\ UNCHANGED <<m_pShaderManager, m_basicMeshes, m_objectMaterials,
                   uniforms, regLog, prevFrame, prevStart, frames>>

\* ~SceneManager(): the meshes are deleted, the textures are not touched
Destructor ==
    /\ phase \in {"prepared", "destroyed"}
    /\ m_pShaderManager' = NullPtr
    /\ m_basicMeshes' = NullPtr
    /\ phase' = "destructed"
    /\ call' = Call("~SceneManager", "", <<>>, 0, NoMaterial)
    /\ pre' = Snapshot
    /\ written' = <<>>
    /\ UNCHANGED <<textureVars, m_objectMaterials, uniforms, prevFrame,
                   prevStart, frames>>

NextScene ==
    \/ \E outcomes \in [1 .. 4 -> DecodeOutcomes] : CallPrepareScene(outcomes)
    \/ \E g \in UninitMaterials : CallRenderScene(g)
    \/ CallDestroyGLTextures
    \/ Destructor

SpecScene == Init /\ [][NextScene]_vars

-----------------------------------------------------------------------------
(* Claims about the setters and the registries *)

Registered(tag) ==
    \E i \in 0 .. m_loadedTextures - 1 : m_textureIDs[i].tag = tag

Defined(tag) ==
    \E i \in 1 .. Len(m_objectMaterials) : m_objectMaterials[i].tag = tag

\* the earliest-appended material with the tag
FirstDefined(tag) ==
    m_objectMaterials[CHOOSE i \in 1 .. Len(m_objectMaterials) :
                          /\ m_objectMaterials[i].tag = tag
                          /\ \A j \in 1 .. i - 1 :
                                m_objectMaterials[j].tag # tag]

\* the position (0-based) of the earliest successful registration of the tag
FirstRegistration(tag) ==
    (CHOOSE i \in 1 .. Len(regLog) :
        /\ regLog[i].tag = tag
        /\ \A j \in 1 .. i - 1 : regLog[j].tag # tag) - 1

WritesTo(names) == {i \in 1 .. Len(written) : written[i].name \in names}

\* C1: after a SetShaderColor call, whatever the calls before it were,
\* bUseTexture is false and objectColor is the colour passed.
C1_ColorClearsUseTexture ==
    call.op = "SetShaderColor" =>
        /\ uniforms[g_UseTextureName] = <<0>>
        /\ uniforms[g_ColorValueName] = call.args

\* SetShaderColor called while the registered texture "mug" was enabled
C1_Witness ==
    /\ call.op = "SetShaderColor"
    /\ pre.uniforms[g_UseTextureName] = <<1>>
    /\ pre.uniforms[g_TextureValueName] = <<0>>
    /\ pre.m_loadedTextures = 1
    /\ pre.uniforms[g_ColorValueName] # call.args

\* C2: FindTextureSlot of a registered tag returns an index below
\* m_loadedTextures, and that index is the position at which the tag was
\* registered among the successful registrations (its first registration,
\* when it was registered more than once).
C2_SlotIsRegistrationOrder ==
    /\ Len(regLog) = m_loadedTextures
    /\ \A i \in 1 .. Len(regLog) :
          /\ FindTextureSlot(regLog[i].tag) \in 0 .. m_loadedTextures - 1
          /\ FindTextureSlot(regLog[i].tag) = FirstRegistration(regLog[i].tag)
    /\ (call.op = "FindTextureSlot" /\ Registered(call.tag)) =>
          /\ call.ret \in 0 .. m_loadedTextures - 1
          /\ regLog[call.ret + 1].tag = call.tag
          /\ call.ret = FirstRegistration(call.tag)

\* "mug", "counter", "cuttingBoard" registered in that order, and
\* FindTextureSlot("counter") returned 1
C2_Witness ==
    /\ Len(regLog) = 3
    /\ regLog[1].tag = "mug"
    /\ regLog[2].tag = "counter"
    /\ regLog[3].tag = "cuttingBoard"
    /\ call.op = "FindTextureSlot"
    /\ call.tag = "counter"
    /\ call.ret = 1

\* C3: a CreateGLTexture whose image fails to decode or has a channel count
\* other than 3 or 4 returns false and leaves m_loadedTextures and the
\* registry entries as they were; a successful one takes the slot
\* m_loadedTextures named before it, so failures consume no slot.
C3_FailedLoadKeepsRegistry ==
    /\ (call.op = "CreateGLTexture" /\ call.args[1] \notin {3, 4}) =>
          /\ call.ret = 0
          /\ m_loadedTextures = pre.m_loadedTextures
          /\ m_textureIDs = pre.m_textureIDs
    /\ (call.op = "CreateGLTexture" /\ call.args[1] \in {3, 4}) =>
          /\ call.ret = 1
          /\ m_loadedTextures = pre.m_loadedTextures + 1
          /\ m_textureIDs[pre.m_loadedTextures].tag = call.tag
          /\ FindTextureSlotFrom(m_textureIDs, m_loadedTextures, call.tag,
                                 pre.m_loadedTextures) = pre.m_loadedTextures
    /\ Len(regLog) = m_loadedTextures

\* a 2-channel image loaded after one texture was registered
C3_Witness ==
    /\ call.op = "CreateGLTexture"
    /\ call.args = <<2>>
    /\ pre.m_loadedTextures = 1
    /\ call.ret = 0

\* C4: FindMaterial returns true exactly when some entry of the list has
\* the tag: false on an empty list and on a list without the tag.
C4_FindMaterialFoundIffDefined ==
    call.op = "FindMaterial" => (call.ret = 1 <=> Defined(call.tag))

\* C5: SetShaderMaterial with a tag no material has writes no material.*
\* uniform and leaves their values as they were.
C5_MissWritesNoMaterial ==
    (call.op = "SetShaderMaterial" /\ ~Defined(call.tag)) =>
        /\ WritesTo(MaterialUniforms) = {}
        /\ \A n \in MaterialUniforms : uniforms[n] = pre.uniforms[n]

\* C6: with several materials of one tag in the list, FindMaterial and
\* SetShaderMaterial yield the fields of the earliest-appended one.
C6_FirstMatchWins ==
    /\ (call.op = "FindMaterial" /\ Defined(call.tag)) =>
          /\ call.ret = 1
          /\ call.out.ambientColor = FirstDefined(call.tag).ambientColor
          /\ call.out.ambientStrength = FirstDefined(call.tag).ambientStrength
          /\ call.out.diffuseColor = FirstDefined(call.tag).diffuseColor
          /\ call.out.specularColor = FirstDefined(call.tag).specularColor
          /\ call.out.shininess = FirstDefined(call.tag).shininess
    /\ (call.op = "SetShaderMaterial" /\ Defined(call.tag)) =>
          /\ uniforms["material.ambientColor"]
                = FirstDefined(call.tag).ambientColor
          /\ uniforms["material.ambientStrength"]
                = <<FirstDefined(call.tag).ambientStrength>>
          /\ uniforms["material.diffuseColor"]
                = FirstDefined(call.tag).diffuseColor
          /\ uniforms["material.specularColor"]
                = FirstDefined(call.tag).specularColor
          /\ uniforms["material.shininess"]
                = <<FirstDefined(call.tag).shininess>>

\* two materials tagged "wood" with different fields, the later one having
\* the counter's fields, and SetShaderMaterial("wood") called
C6_Witness ==
    /\ Len(m_objectMaterials) = 2
    /\ m_objectMaterials[1] = woodMaterial
    /\ m_objectMaterials[2] = [counterMaterial EXCEPT !.tag = "wood"]
    /\ call.op = "SetShaderMaterial"
    /\ call.tag = "wood"

\* C7: SetShaderTexture sets bUseTexture to true and the sampler to
\* FindTextureSlot(tag), which is -1 when no registered texture has the tag;
\* the registry is unchanged.
C7_TextureSetsSamplerOrSentinel ==
    call.op = "SetShaderTexture" =>
        /\ uniforms[g_UseTextureName] = <<1>>
        /\ uniforms[g_TextureValueName] = <<FindTextureSlot(call.tag)>>
        /\ Registered(call.tag) =>
              uniforms[g_TextureValueName] = <<FirstRegistration(call.tag)>>
        /\ ~Registered(call.tag) => uniforms[g_TextureValueName] = <<-1>>
        /\ m_textureIDs = pre.m_textureIDs
        /\ m_loadedTextures = pre.m_loadedTextures
        /\ gl = pre.gl

\* SetShaderTexture of an unregistered tag on a non-empty registry, the
\* sampler naming a registered slot before
C7_Witness ==
    /\ call.op = "SetShaderTexture"
    /\ m_loadedTextures = 2
    /\ ~Registered(call.tag)
    /\ pre.uniforms[g_TextureValueName] = <<1>>
    /\ uniforms[g_TextureValueName] = <<-1>>

-----------------------------------------------------------------------------
(* Claims about the scene *)

\* how often name occurs in the sequence of deleted texture names
TimesDeleted(name) ==
    Cardinality({i \in 1 .. Len(gl.deleted) : gl.deleted[i] = name})

\* C8: every texture name a successful CreateGLTexture created is released
\* exactly once by the time the object is destroyed, and DestroyGLTextures
\* releases every registered name and generates no new one.
C8_TexturesReleasedOnce ==
    /\ call.op = "DestroyGLTextures" =>
          /\ gl.next = pre.gl.next
          /\ \A i \in 1 .. Len(regLog) :
                /\ regLog[i].ID \notin gl.names
                /\ TimesDeleted(regLog[i].ID) = 1
    /\ phase = "destructed" =>
          \A i \in 1 .. Len(regLog) : TimesDeleted(regLog[i].ID) = 1

DrawsOf(w) == SelectSeq(w, LAMBDA e : e.kind = "draw")

\* the draw calls of one frame: countertop, mug (body, handle, two rims, tea
\* tag, string), cutting board, six grapes, two sausages, tea box
SceneDraws ==
    <<Draw("plane", <<>>),
      Draw("cylinder", <<0, 0, 1>>), Draw("torus", <<>>),
      Draw("cylinder", <<>>), Draw("cylinder", <<>>), Draw("box", <<>>),
      Draw("cylinder", <<>>),
      Draw("box", <<>>),
      Draw("sphere", <<>>), Draw("sphere", <<>>), Draw("sphere", <<>>),
      Draw("sphere", <<>>), Draw("sphere", <<>>), Draw("sphere", <<>>),
      Draw("cylinder", <<0, 1, 1>>), Draw("cylinder", <<0, 1, 1>>),
      Draw("box", <<>>)>>

\* C9: a RenderScene that follows another RenderScene makes the same
\* sequence of uniform writes and draw calls as that one, and the draw calls
\* of every frame are those of the objects in the order countertop, mug,
\* cutting board, grapes, sausages, tea box.
C9_FramesIdentical ==
    call.op = "RenderScene" =>
        /\ DrawsOf(written) = SceneDraws
        /\ frames >= 2 => written = prevFrame

\* a second frame, drawn from the uniforms the first frame left
C9_Witness ==
    /\ call.op = "RenderScene"
    /\ frames = 2
    /\ m_loadedTextures = 4
    /\ Len(prevFrame) > Len(SceneDraws)
    /\ pre.uniforms[g_ModelName] # <<>>

SphereDraws ==
    {k \in 1 .. Len(written) :
        written[k].kind = "draw" /\ written[k].name = "sphere"}

\* the position in written of the i-th sphere draw, i from 0
SphereDraw(i) ==
    CHOOSE k \in SphereDraws : Cardinality({j \in SphereDraws : j < k}) = i

\* the model matrix pushed most recently before position k of written
ModelPushedBefore(k) ==
    LET pushes == {j \in 1 .. k - 1 :
                      written[j].kind = "uniform"
                      /\ written[j].name = g_ModelName}
    IN  IF pushes = {} THEN <<>>
        ELSE written[CHOOSE j \in pushes : \A m \in pushes : m <= j].value

\* C10: a frame has exactly 6 sphere draw calls, and the model matrix pushed
\* most recently before the i-th of them is the translation to
\* grapePositions[i], zero rotation, and the scale grapeSizes[i] on all axes.
C10_GrapesDrawnInIndexOrder ==
    call.op = "RenderScene" =>
        /\ Cardinality(SphereDraws) = 6
        /\ \A i \in 0 .. 5 :
              ModelPushedBefore(SphereDraw(i)) =
                  grapePositions[i] \o <<0, 0, 0>>
                      \o <<grapeSizes[i], grapeSizes[i], grapeSizes[i]>>

\* a frame was rendered and its last sphere was drawn with the sixth size
C10_Witness ==
    /\ call.op = "RenderScene"
    /\ Cardinality(SphereDraws) = 6
    /\ ModelPushedBefore(SphereDraw(5)) =
          <<-260, 38, 640, 0, 0, 0, 17, 17, 17>>

\* the texture tags the draw statements of the scene pass to SetShaderTexture
SceneTextureTags == {"counter", "mug", "cuttingBoard"}

\* C11: from PrepareScene on, and so at every draw call, texture unit i is
\* bound to the texture registered at index i, for every registered index;
\* hence the unit FindTextureSlot(tag) names holds the texture that was
\* registered under tag.  The binding is made after the last CreateGLTexture.
C11_UnitsHoldRegisteredTextures ==
    phase = "prepared" =>
        /\ Len(regLog) = m_loadedTextures
        /\ \A i \in 0 .. m_loadedTextures - 1 :
              /\ gl.units[i] = m_textureIDs[i].ID
              /\ gl.units[i] = regLog[i + 1].ID
              /\ gl.units[i] \in gl.names
        /\ \A t \in SceneTextureTags :
              Registered(t) =>
                  gl.units[FindTextureSlot(t)]
                      = regLog[FirstRegistration(t) + 1].ID

\* a frame drawn after the second image decoded with a channel count that is
\* not supported: three textures registered, and unit 2 holds texture name 4
C11_Witness ==
    /\ call.op = "RenderScene"
    /\ m_loadedTextures = 3
    /\ regLog[3].tag = "cuttingBoard"
    /\ regLog[3].ID = 4
    /\ gl.units[2] = 4
    /\ uniforms[g_TextureValueName] = <<2>>

\* the positions in the log w of its draw calls
DrawPositions(w) == {k \in 1 .. Len(w) : w[k].kind = "draw"}

\* the position in w of its d-th draw call, d from 1
DrawPosition(w, d) ==
    CHOOSE k \in DrawPositions(w) :
        Cardinality({j \in DrawPositions(w) : j < k}) = d - 1

\* the value of uniform n when the entry at position k of w is reached, the
\* uniforms being start when the first entry of w is
InEffect(w, start, k, n) ==
    LET ws == {j \in 1 .. k - 1 : w[j].kind = "uniform" /\ w[j].name = n}
    IN  IF ws = {} THEN start[n]
        ELSE w[CHOOSE j \in ws : \A m \in ws : m <= j].value

\* the textured draw calls of a frame, by their rank among its draw calls,
\* with the tag each passes to SetShaderTexture: countertop, mug body, mug
\* handle, cutting board
TexturedDraws == {<<1, "counter">>, <<2, "mug">>, <<3, "mug">>,
                  <<8, "cuttingBoard">>}

TexturedRanks == {td[1] : td \in TexturedDraws}

\* the slot of a tag by the order of the successful registrations, or -1
SlotByRegistration(tag) ==
    IF \E i \in 1 .. Len(regLog) : regLog[i].tag = tag
    THEN FirstRegistration(tag)
    ELSE -1

\* C12: at every draw call of every frame, bUseTexture is true and the
\* sampler is the slot of the statement's tag for the countertop, the mug
\* body, the mug handle and the cutting board, and bUseTexture is false for
\* every other draw call.
C12_UseTextureAgreesWithDraw ==
    call.op = "RenderScene" =>
        /\ Cardinality(DrawPositions(written)) = Len(SceneDraws)
        /\ \A td \in TexturedDraws :
              LET k == DrawPosition(written, td[1])
              IN  /\ InEffect(written, pre.uniforms, k, g_UseTextureName)
                        = <<1>>
                  /\ InEffect(written, pre.uniforms, k, g_TextureValueName)
                        = <<SlotByRegistration(td[2])>>
        /\ \A d \in (1 .. Len(SceneDraws)) \ TexturedRanks :
              InEffect(written, pre.uniforms,
                       DrawPosition(written, d), g_UseTextureName) = <<0>>

\* a second frame with the four textures loaded: the cutting board is drawn
\* with sampler 3, and the frame starts from the tea box's flat colour
C12_Witness ==
    /\ call.op = "RenderScene"
    /\ frames = 2
    /\ m_loadedTextures = 4
    /\ InEffect(written, pre.uniforms, DrawPosition(written, 8),
                g_TextureValueName) = <<3>>
    /\ InEffect(written, pre.uniforms, DrawPosition(written, 9),
                g_UseTextureName) = <<0>>
    /\ pre.uniforms[g_TextureValueName] = <<3>>

\* the uniforms of texture tiling and of the material
TilingAndMaterial == {"UVscale"} \cup MaterialUniforms

\* C13: at each textured draw call (countertop, mug body, mug handle, cutting
\* board) the UVscale and material.* values in effect are the same in the
\* frame just rendered as in the frame before it, the first frame included,
\* and each of them was written earlier in the same frame: none is what the
\* frame before left behind.
C13_TexturedDrawsIndependentOfLastFrame ==
    call.op = "RenderScene" =>
        \A td \in TexturedDraws, n \in TilingAndMaterial :
            LET k == DrawPosition(written, td[1])
            IN  /\ \E j \in 1 .. k - 1 :
                      written[j].kind = "uniform" /\ written[j].name = n
                /\ frames >= 2 =>
                      InEffect(written, pre.uniforms, k, n)
                          = InEffect(prevFrame, prevStart,
                                     DrawPosition(prevFrame, td[1]), n)

=============================================================================
